---------------------------- MODULE Spec2Model ----------------------------
(***************************************************************************)
(* A model of the EduBoost API gateway (src/server/index.js): the per-IP   *)
(* fixed-window rate limiter, the in-memory session store, the request     *)
(* pipeline of the seven /api endpoints, the upstream (OpenAI) error       *)
(* classifier and the periodic sweep.                                      *)
(*                                                                         *)
(* Times are milliseconds since process start.  Strings are sequences of   *)
(* one-character strings, so that trim() and slice() are computed.         *)
(***************************************************************************)
EXTENDS Integers, Sequences, FiniteSets, TLC

(***************************************************************************)
(* Strings                                                                 *)
(***************************************************************************)
IsWhitespace(c) == c \in {" ", "\t", "\n"}

RECURSIVE TrimStart(_)
TrimStart(s) ==
  IF s = <<>> THEN <<>>
  ELSE IF IsWhitespace(Head(s)) THEN TrimStart(Tail(s))
  ELSE s

RECURSIVE TrimEnd(_)
TrimEnd(s) ==
  IF s = <<>> THEN <<>>
  ELSE IF IsWhitespace(s[Len(s)]) THEN TrimEnd(SubSeq(s, 1, Len(s) - 1))
  ELSE s

\* String.prototype.trim
Trim(s) == TrimEnd(TrimStart(s))

\* String.prototype.startsWith
StartsWith(s, p) == Len(s) >= Len(p) /\ SubSeq(s, 1, Len(p)) = p

\* String.prototype.slice(n)
SliceFrom(s, n) == IF n >= Len(s) THEN <<>> ELSE SubSeq(s, n + 1, Len(s))

BearerPrefix == <<"B", "e", "a", "r", "e", "r", " ">>
BasicPrefix == <<"B", "a", "s", "i", "c", " ">>

(***************************************************************************)
(* Errors                                                                  *)
(***************************************************************************)
NoDetails == [kind |-> "none", field |-> "", maxLength |-> 0,
              retryAfterSeconds |-> 0, windowMs |-> 0, maxRequests |-> 0]

\* A message is either a string literal of the gateway, named by the code
\* it is written for, or the text a thrown value brings along.
Literal(code) == <<"literal", code>>
Thrown(kind) == <<"thrown", kind>>
NoMessage == <<>>

\* new ApiError(status, code, message, details, requestId); the requestId
\* is carried as a flag (whether one is attached).
ApiError(status, code, details, requestId) ==
  [isApiError |-> TRUE, status |-> status, code |-> code,
   message |-> Literal(code), details |-> details, requestId |-> requestId]

\* A thrown value that is not an ApiError (TypeError, SyntaxError, a
\* body-parser error, a rejected fetch, a value that is no Error at all),
\* named by its kind.
OtherError(kind) ==
  [isApiError |-> FALSE, status |-> 0, code |-> kind,
   message |-> Thrown(kind), details |-> NoDetails, requestId |-> FALSE]

\* Variant: an unexpected error is answered with its own text.
describeError(error) ==
  [status |-> IF error.isApiError THEN error.status ELSE 500,
   code |-> IF error.isApiError THEN error.code ELSE "INTERNAL_ERROR",
   message |-> error.message,
   details |-> error.details, requestId |-> error.requestId]

normalizeError(error) ==
  IF error.isApiError
    THEN [status |-> error.status, code |-> error.code,
          message |-> error.message,
          details |-> error.details, requestId |-> error.requestId]
    ELSE [status |-> 500, code |-> "INTERNAL_ERROR",
          message |-> Literal("INTERNAL_ERROR"),
          details |-> NoDetails, requestId |-> FALSE]

(***************************************************************************)
(* Request bodies and field validation                                     *)
(***************************************************************************)
FieldNames == {"content", "text", "password"}

\* A JavaScript value as typeof / truthiness / Array.isArray see it; str is
\* its text when it is a string.
JsValue(type, truthy, isArray, str) ==
  [type |-> type, truthy |-> truthy, isArray |-> isArray, str |-> str]

Undefined == JsValue("undefined", FALSE, FALSE, <<>>)
JsNull == JsValue("object", FALSE, FALSE, <<>>)
JsNumber(truthy) == JsValue("number", truthy, FALSE, <<>>)
JsString(s) == JsValue("string", s # <<>>, FALSE, s)

\* req.body: the value itself and, when it is a plain object, its fields.
NoFields == [f \in FieldNames |-> Undefined]
Body(value, fields) == [value |-> value, fields |-> fields]
ObjectBody(fields) == Body(JsValue("object", TRUE, FALSE, <<>>), fields)
ArrayBody == Body(JsValue("object", TRUE, TRUE, <<>>), NoFields)
PrimitiveBody(v) == Body(v, NoFields)

Ok(value) == [ok |-> TRUE, value |-> value, error |-> OtherError("none")]
Throw(error) == [ok |-> FALSE, value |-> <<>>, error |-> error]

\* Variant: the cap is exclusive.
FieldAtCap(value, maxLength) == Len(value) >= maxLength

FieldTooLarge(value, maxLength) == Len(value) > maxLength

readRequiredTextField(body, fieldName, maxLength) ==
  IF ~body.value.truthy \/ body.value.type # "object" \/ body.value.isArray
    THEN Throw(ApiError(400, "INVALID_INPUT", NoDetails, FALSE))
  ELSE IF body.fields[fieldName].type # "string"
    THEN Throw(ApiError(400, "INVALID_INPUT", NoDetails, FALSE))
  ELSE LET value == Trim(body.fields[fieldName].str) IN
    IF value = <<>>
      THEN Throw(ApiError(400, "INVALID_INPUT", NoDetails, FALSE))
    ELSE IF FieldTooLarge(value, maxLength)
      THEN Throw(ApiError(400, "INPUT_TOO_LARGE",
                          [NoDetails EXCEPT !.kind = "field",
                                            !.field = fieldName,
                                            !.maxLength = maxLength], FALSE))
    ELSE Ok(value)


(***************************************************************************)
(* Configuration (process.env) and model bounds                            *)
(***************************************************************************)
\* Length caps of the three validated fields and the session lifetime, as
\* configured (small, so that every side of every cap is exercised).
MAX_CONTENT_LENGTH == 3
MAX_PODCAST_TEXT_LENGTH == 2
MAX_PASSWORD_LENGTH == 3
SESSION_TTL_MS == 60000
MsPerSecond == 1000
MinSweepIntervalMs == 30000

\* The clock advances at most MaxTicks times; at most MaxPending requests
\* are suspended on the upstream call at once.
MaxTicks == 2
MaxPending == 1

IPs == {"ip1", "ip2"}
Student == "student"
Professor == "professor"

\* crypto.randomBytes(32).toString("hex") draws from TokenPool.
TokenPool == {<<"t", "1">>, <<"t", "2">>}
NoToken == <<>>

Config(app, prof, key, window, max) ==
  [APP_PASSWORD |-> Trim(app), PROF_PASSWORD |-> Trim(prof),
   OPENAI_API_KEY |-> key, RATE_LIMIT_WINDOW_MS |-> window,
   RATE_LIMIT_MAX_REQUESTS |-> max]

\* The configurations of the whole pipeline: each password set or not, the
\* upstream credential present or not.
Configs ==
  {Config(app, prof, key, 30000, 2) :
     app \in {<<>>, <<"p", " ">>}, prof \in {<<>>, <<"q">>}, key \in BOOLEAN}

\* The configurations of the limiter alone: short and long windows, and
\* request caps from 0 up.
LimiterConfigs ==
  {Config(<<>>, <<>>, TRUE, window, max) :
     window \in {1000, 1500, 60000}, max \in {0, 1, 2}}

VARIABLES
  cfg,           \* the configuration read at start-up
  now,           \* Date.now()
  ticks,         \* how many times the clock has advanced
  rateBuckets,   \* Map ip -> {count, resetAt}
  authSessions,  \* Map token -> {expiresAt, role}
  sweepDue,      \* earliest time the interval timer fires next
  pending,       \* requests suspended on the upstream call
  allowLog,      \* per ip, the times at which the limiter allowed a request
  resp,          \* the response being written, NoResp once it is sent
  probe          \* a function under test: its arguments and its result

vars == <<cfg, now, ticks, rateBuckets, authSessions, sweepDue, pending,
          allowLog, resp, probe>>

Put(m, k, v) == [x \in DOMAIN m \cup {k} |-> IF x = k THEN v ELSE m[x]]
Remove(m, k) == [x \in DOMAIN m \ {k} |-> m[x]]
EmptyMap == [x \in {} |-> 0]

Max(a, b) == IF a >= b THEN a ELSE b

Digits == <<"0", "1", "2", "3", "4", "5", "6", "7", "8", "9">>

\* String(n) for an integer n >= 0
RECURSIVE String(_)
String(n) ==
  IF n < 10 THEN <<Digits[n + 1]>>
  ELSE String(n \div 10) \o <<Digits[(n % 10) + 1]>>

\* Math.ceil(a / b) for b > 0
Ceil(a, b) == -((-a) \div b)

isAuthEnabled == Len(cfg.APP_PASSWORD) > 0

\* Variant: the sweep is scheduled once per window.
SweepEveryWindow == cfg.RATE_LIMIT_WINDOW_MS

\* setInterval(..., Math.max(30_000, RATE_LIMIT_WINDOW_MS))
SweepIntervalMs == Max(MinSweepIntervalMs, cfg.RATE_LIMIT_WINDOW_MS)

(***************************************************************************)
(* Rate limiter                                                            *)
(***************************************************************************)
\* Variant: the remaining time is rounded down.
RetryAfterFloor(bucket, t) ==
  Max(1, (bucket.resetAt - t) \div MsPerSecond)

RetryAfterSeconds(bucket, t) ==
  Max(1, Ceil(bucket.resetAt - t, MsPerSecond))

\* Variant: the clock is compared with the start of the window.
WindowStarted(bucket, t) == bucket.resetAt - cfg.RATE_LIMIT_WINDOW_MS <= t

WindowElapsed(bucket, t) == bucket.resetAt <= t

\* Variant: the limiter denies one request late.
LimitExceeded(bucket) == bucket.count > cfg.RATE_LIMIT_MAX_REQUESTS

LimitReached(bucket) == bucket.count >= cfg.RATE_LIMIT_MAX_REQUESTS

\* Variant: an elapsed window is reopened in place, the count carried on.
extendWindow(buckets, ip, t) ==
  IF ip \notin DOMAIN buckets
    THEN [allowed |-> TRUE,
          buckets |-> Put(buckets, ip,
                          [count |-> 1, resetAt |-> t + cfg.RATE_LIMIT_WINDOW_MS]),
          error |-> OtherError("none"), retryAfter |-> <<>>]
    ELSE [allowed |-> TRUE,
          buckets |-> [buckets EXCEPT
                         ![ip].count = @ + 1,
                         ![ip].resetAt = IF @ <= t
                                           THEN t + cfg.RATE_LIMIT_WINDOW_MS
                                           ELSE @],
          error |-> OtherError("none"), retryAfter |-> <<>>]

\* rateLimitMiddleware at clock reading t: the decision, the buckets after
\* it, and the error and Retry-After header of a denial.
rateLimitMiddleware(buckets, ip, t) ==
  IF ip \notin DOMAIN buckets \/ WindowElapsed(buckets[ip], t)
    THEN [allowed |-> TRUE,
          buckets |-> Put(buckets, ip,
                          [count |-> 1, resetAt |-> t + cfg.RATE_LIMIT_WINDOW_MS]),
          error |-> OtherError("none"), retryAfter |-> <<>>]
  ELSE IF LimitReached(buckets[ip])
    THEN LET retryAfterSeconds == RetryAfterSeconds(buckets[ip], t) IN
         [allowed |-> FALSE,
          buckets |-> buckets,
          error |-> ApiError(429, "RATE_LIMITED",
                      [NoDetails EXCEPT
                         !.kind = "rate",
                         !.retryAfterSeconds = retryAfterSeconds,
                         !.windowMs = cfg.RATE_LIMIT_WINDOW_MS,
                         !.maxRequests = cfg.RATE_LIMIT_MAX_REQUESTS], FALSE),
          retryAfter |-> String(retryAfterSeconds)]
  ELSE [allowed |-> TRUE,
        buckets |-> [buckets EXCEPT ![ip].count = @ + 1],
        error |-> OtherError("none"), retryAfter |-> <<>>]

(***************************************************************************)
(* Session store                                                           *)
(***************************************************************************)
\* Variant: every session is created with the base role.
createStudentSession(sessions, token, role, t) ==
  Put(sessions, token, [expiresAt |-> t + SESSION_TTL_MS, role |-> Student])

\* createSessionToken(role) with the random token drawn as `token`
createSessionToken(sessions, token, role, t) ==
  Put(sessions, token, [expiresAt |-> t + SESSION_TTL_MS, role |-> role])

\* getBearerToken; NoToken is its null
getBearerToken(authorization) ==
  IF ~StartsWith(authorization, BearerPrefix) THEN NoToken
  ELSE Trim(SliceFrom(authorization, Len(BearerPrefix)))

\* Variant: a session is still good at the instant it expires.
SessionPastExpiry(session, t) == session.expiresAt < t

SessionExpired(session, t) == session.expiresAt <= t

\* Variant: a stored session is good until it is swept.
hasStoredSession(sessions, token, t) ==
  [valid |-> token # NoToken /\ token \in DOMAIN sessions, sessions |-> sessions]

\* Variant: a lookup that succeeds renews the session.
touchSession(sessions, token, t) ==
  IF token = NoToken \/ token \notin DOMAIN sessions
    THEN [valid |-> FALSE, sessions |-> sessions]
  ELSE IF SessionExpired(sessions[token], t)
    THEN [valid |-> FALSE, sessions |-> Remove(sessions, token)]
  ELSE [valid |-> TRUE,
        sessions |-> [sessions EXCEPT ![token].expiresAt = t + SESSION_TTL_MS]]

\* hasValidSession(token) at clock reading t: the result and the store
\* after the lazy eviction.
hasValidSession(sessions, token, t) ==
  IF token = NoToken THEN [valid |-> FALSE, sessions |-> sessions]
  ELSE IF token \notin DOMAIN sessions THEN [valid |-> FALSE, sessions |-> sessions]
  ELSE IF SessionExpired(sessions[token], t)
    THEN [valid |-> FALSE, sessions |-> Remove(sessions, token)]
  ELSE [valid |-> TRUE, sessions |-> sessions]

getSessionRole(sessions, token) ==
  IF token = NoToken THEN Student
  ELSE IF token \notin DOMAIN sessions THEN Student
  ELSE sessions[token].role

(***************************************************************************)
(* Requests                                                                *)
(***************************************************************************)
Endpoints == {"login", "prof-login", "status", "summarize", "flashcards",
              "podcast", "health"}
PostEndpoints == {"login", "prof-login", "summarize", "flashcards", "podcast"}
ProtectedEndpoints == {"summarize", "flashcards", "podcast"}

UnknownToken == <<"t", "x">>

\* Authorization header values; <<>> is the absent header.
NoAuthorization == <<>>
Authorizations ==
  {NoAuthorization,
   BasicPrefix \o <<"t", "1">>,
   BearerPrefix,
   BearerPrefix \o <<"t", "1">>,
   BearerPrefix \o <<" ", "t", "2", " ">>,
   BearerPrefix \o UnknownToken}

AllFields(v) == [f \in FieldNames |-> v]

TextBody(s) == ObjectBody(AllFields(JsString(s)))
EmptyObject == ObjectBody(NoFields)
NoBody == PrimitiveBody(Undefined)

\* req.body as express.json leaves it for a request it accepted
Bodies ==
  {NoBody,
   ArrayBody,
   EmptyObject,
   ObjectBody([NoFields EXCEPT !["content"] = JsString(<<"p">>)]),
   ObjectBody(AllFields(JsNumber(TRUE))),
   TextBody(<<" ", "\t">>),
   TextBody(<<" ", "p", " ">>),
   TextBody(<<"q">>),
   TextBody(<<"p", "q", "p">>),
   TextBody(<<"p", "q", "p", "q">>)}

\* What express.json makes of the payload: parsed, a syntax error
\* (entity.parse.failed) or over the 1mb limit (entity.too.large).
ParseResults == {"ok", "entity.parse.failed", "entity.too.large"}

Request(ep, ip, authorization, parse, body) ==
  [ep |-> ep, ip |-> ip, authorization |-> authorization, parse |-> parse,
   body |-> body]

\* Every header with a valid and an invalid body, and every body with a
\* session's header.
HeadersAndBodies ==
  (Authorizations \X {TextBody(<<" ", "p", " ">>), EmptyObject})
  \cup ({BearerPrefix \o <<"t", "1">>} \X Bodies)

\* The requests of the pipeline's one client, by route
Client == "ip1"

\* /flashcards shares the chain of /summarize up to the fetch.
ProtectedRequests ==
  {Request(ep, Client, hb[1], "ok", hb[2]) :
     ep \in {"summarize", "podcast"}, hb \in HeadersAndBodies}
  \cup
  {Request("flashcards", Client, a, "ok", b) :
     a \in {NoAuthorization, BearerPrefix \o <<"t", "1">>},
     b \in {TextBody(<<" ", "p", " ">>), EmptyObject}}

LoginRequests ==
  {Request(ep, Client, NoAuthorization, "ok", b) :
     ep \in {"login", "prof-login"}, b \in Bodies}

StatusRequests ==
  {Request("status", Client, a, "ok", EmptyObject) : a \in Authorizations}

HealthRequests ==
  {Request("health", Client, NoAuthorization, "ok", EmptyObject)}

UnparsedRequests ==
  {Request(ep, Client, NoAuthorization, "entity.parse.failed", NoBody) :
     ep \in Endpoints}
  \cup
  {Request("summarize", Client, BearerPrefix \o <<"t", "1">>, p, NoBody) :
     p \in ParseResults \ {"ok"}}

\* The requests sent while the limiter denies: per endpoint, a bare one
\* and one that would otherwise succeed.
DeniedRequests ==
  {Request(ep, Client, a, "ok", b) :
     ep \in Endpoints, a \in {NoAuthorization},
     b \in {EmptyObject}}
  \cup
  {Request(ep, Client, BearerPrefix \o <<"t", "1">>, "ok",
           TextBody(<<" ", "p", " ">>)) : ep \in PostEndpoints}

Requests ==
  ProtectedRequests \cup LoginRequests \cup StatusRequests
  \cup HealthRequests \cup UnparsedRequests \cup DeniedRequests

\* The requests that exercise the limiter alone
LimiterRequests ==
  {Request("health", ip, NoAuthorization, p, EmptyObject) :
     ip \in IPs, p \in {"ok", "entity.parse.failed"}}

NoRequest == Request("", "", <<>>, "", NoBody)

(***************************************************************************)
(* Upstream (OpenAI) responses                                             *)
(***************************************************************************)
UpstreamStatuses == {200, 299, 300, 401, 403, 404, 429, 499, 500, 503}

\* What a successful upstream response carries: for chat completions the
\* JSON body and its choices[0].message.content, for speech the audio bytes.
\* invalidJson is a body that is no JSON; noContent a body without message
\* content; the others name the content: whitespace, prose, and the JSON
\* texts "null", "5", {"flashcards": "none"} and {"flashcards": [...]}.
ChatPayloads == {"invalidJson", "noContent", "blank", "text", "jsonNull",
                 "jsonNumber", "jsonNoArray", "jsonArray"}
AudioPayloads == {"empty", "audio"}

\* JSON.parse(content || "{}"): whether it returns, the value it returns
\* and that value's flashcards property
JsonParse(payload) ==
  CASE payload \in {"blank", "text"} ->
         [ok |-> FALSE, value |-> Undefined, flashcards |-> Undefined]
    [] payload = "noContent" ->
         [ok |-> TRUE, value |-> JsValue("object", TRUE, FALSE, <<>>),
          flashcards |-> Undefined]
    [] payload = "jsonNull" ->
         [ok |-> TRUE, value |-> JsNull, flashcards |-> Undefined]
    [] payload = "jsonNumber" ->
         [ok |-> TRUE, value |-> JsNumber(TRUE), flashcards |-> Undefined]
    [] payload = "jsonNoArray" ->
         [ok |-> TRUE, value |-> JsValue("object", TRUE, FALSE, <<>>),
          flashcards |-> JsString(<<"n", "o", "n", "e">>)]
    [] payload = "jsonArray" ->
         [ok |-> TRUE, value |-> JsValue("object", TRUE, FALSE, <<>>),
          flashcards |-> JsValue("object", TRUE, TRUE, <<>>)]

Upstream(kind, status, hasRequestId, payload) ==
  [kind |-> kind, status |-> status, hasRequestId |-> hasRequestId,
   payload |-> payload]

NoUpstream == Upstream("none", 0, FALSE, "")

\* response.ok
ResponseOk(status) == status >= 200 /\ status <= 299

\* A settled fetch: rejected, or a response with its status, its
\* x-request-id header and its payload.
UpstreamOutcomes(ep) ==
  {Upstream("rejected", 0, FALSE, "")}
  \cup
  {Upstream("response", st, rid, "") :
     st \in {x \in UpstreamStatuses : ~ResponseOk(x)}, rid \in BOOLEAN}
  \cup
  {Upstream("response", 200, FALSE, pl) :
     pl \in IF ep = "podcast" THEN AudioPayloads ELSE ChatPayloads}
  \cup
  {Upstream("response", st, FALSE, IF ep = "podcast" THEN "audio" ELSE "text") :
     st \in {x \in UpstreamStatuses : ResponseOk(x)}}

UpstreamDetails == [NoDetails EXCEPT !.kind = "upstream"]

\* Variant: the upstream status is relayed as it is.
relayOpenAiError(response) ==
  ApiError(response.status, "UPSTREAM_ERROR", UpstreamDetails,
           response.hasRequestId)

readOpenAiError(response) ==
  IF response.status = 429
    THEN ApiError(429, "UPSTREAM_RATE_LIMIT", UpstreamDetails, response.hasRequestId)
  ELSE IF response.status = 401 \/ response.status = 403
    THEN ApiError(502, "UPSTREAM_AUTH_ERROR", UpstreamDetails, response.hasRequestId)
  ELSE IF response.status >= 500
    THEN ApiError(502, "UPSTREAM_UNAVAILABLE", UpstreamDetails, response.hasRequestId)
  ELSE ApiError(502, "UPSTREAM_ERROR", UpstreamDetails, response.hasRequestId)

(***************************************************************************)
(* Responses                                                               *)
(***************************************************************************)
\* The response of one request: the stages it went through and what is
\* sent.  retryAfter is the Retry-After header (<<>> when not set), tFirst
\* the clock reading of the handler's first session read when a second one
\* follows it, evicted whether a session read deleted an expired entry.
Response(req, stages) ==
  [req |-> req, stages |-> stages, status |-> 200, code |-> "",
   message |-> NoMessage, details |-> NoDetails, requestId |-> FALSE, retryAfter |-> <<>>,
   upstream |-> NoUpstream, token |-> NoToken, role |-> "",
   authEnabled |-> "", authenticated |-> "", data |-> "", tFirst |-> 0,
   evicted |-> FALSE]

NoResp == [Response(NoRequest, <<>>) EXCEPT !.status = 0]

\* checkAuthStatus of the client: what it makes of the /auth/status body
checkAuthStatus(r) ==
  [authenticated |-> r.authenticated = "true",
   role |-> IF r.role = "" THEN Student ELSE r.role]

\* sendError(res, error)
sendError(r, error) ==
  LET n == normalizeError(error) IN
  [r EXCEPT !.status = n.status, !.code = n.code, !.message = n.message,
            !.details = n.details, !.requestId = n.requestId]

Bool(b) == IF b THEN "true" ELSE "false"

\* A call of readRequiredTextField: its arguments and, once it has
\* returned or thrown, its result.
Probe(body, fieldName, maxLength) ==
  [body |-> body, fieldName |-> fieldName, maxLength |-> maxLength,
   done |-> FALSE, result |-> Throw(OtherError("none"))]

NoProbe == Probe(NoBody, "", 0)

(***************************************************************************)
(* History of the limiter's decisions                                      *)
(***************************************************************************)
\* The allowed requests of the last window length, oldest first.
Prune(log, t) ==
  [ip \in IPs |->
     SelectSeq(log[ip], LAMBDA x : x > t - cfg.RATE_LIMIT_WINDOW_MS)]

Logged(log, ip, t) == [log EXCEPT ![ip] = Append(@, t)]

(***************************************************************************)
(* Handlers.  Each is the synchronous run of the middleware chain for one  *)
(* request: express.json, rateLimitMiddleware, the route (or the auth      *)
(* middleware and then the route), up to the response or to the first      *)
(* await.  The chain reads Date.now() as `now`; GET /api/auth/status,      *)
(* which reads the session store twice, reads it again d later.            *)
(***************************************************************************)
InitWith(configs, probes) ==
  /\ cfg \in configs
  /\ now = 0
  /\ ticks = 0
  /\ rateBuckets = EmptyMap
  /\ authSessions = EmptyMap
  /\ sweepDue = SweepIntervalMs
  /\ pending = <<>>
  /\ allowLog = [ip \in IPs |-> <<>>]
  /\ resp = NoResp
  /\ probe \in probes

Init == InitWith(Configs, {NoProbe})

\* The event loop takes the next event once the response is written.
Idle == resp = NoResp

\* The response leaves the process.
Deliver ==
  /\ resp # NoResp
  /\ resp' = NoResp
  /\ UNCHANGED <<cfg, now, ticks, rateBuckets, authSessions, sweepDue,
                 pending, allowLog, probe>>

\* express.json fails: the error-handling middleware answers, and neither
\* rateLimitMiddleware nor any route runs.
ParseFailure(req) ==
  /\ Idle
  /\ req.parse # "ok"
  /\ resp' = sendError(Response(req, <<"json", "jsonError">>),
                       IF req.parse = "entity.parse.failed"
                         THEN ApiError(400, "INVALID_JSON", NoDetails, FALSE)
                         ELSE OtherError(req.parse))
  /\ UNCHANGED <<cfg, now, ticks, rateBuckets, authSessions, sweepDue,
                 pending, allowLog, probe>>

\* Variant: a denied request restarts the client's window.
DeniedRestarting(req) ==
  /\ Idle
  /\ req.parse = "ok"
  /\ \E rl \in {rateLimitMiddleware(rateBuckets, req.ip, now)} :
       /\ ~rl.allowed
       /\ rateBuckets' =
            [rl.buckets EXCEPT
               ![req.ip].resetAt = now + cfg.RATE_LIMIT_WINDOW_MS]
       /\ resp' = [sendError(Response(req, <<"json", "rate">>), rl.error)
                     EXCEPT !.retryAfter = rl.retryAfter]
  /\ UNCHANGED <<cfg, now, ticks, authSessions, sweepDue, pending, allowLog,
                 probe>>

\* rateLimitMiddleware denies the request.
Denied(req) ==
  /\ Idle
  /\ req.parse = "ok"
  /\ \E rl \in {rateLimitMiddleware(rateBuckets, req.ip, now)} :
       /\ ~rl.allowed
       /\ rateBuckets' = rl.buckets
       /\ resp' = [sendError(Response(req, <<"json", "rate">>), rl.error)
                     EXCEPT !.retryAfter = rl.retryAfter]
  /\ UNCHANGED <<cfg, now, ticks, authSessions, sweepDue, pending, allowLog,
                 probe>>

\* The limiter's part of a request it allows, the handler taking d.
Admitted(req, d) ==
  /\ Idle
  /\ req.parse = "ok"
  /\ d > 0 => ticks < MaxTicks
  /\ \E rl \in {rateLimitMiddleware(rateBuckets, req.ip, now)} :
       /\ rl.allowed
       /\ rateBuckets' = rl.buckets
  /\ allowLog' = Prune(Logged(allowLog, req.ip, now), now + d)
  /\ now' = now + d
  /\ ticks' = IF d > 0 THEN ticks + 1 ELSE ticks
  /\ UNCHANGED <<cfg, sweepDue, probe>>

\* POST /api/auth/login and /api/auth/prof-login, the new token drawn as
\* `token`.
LoginHandler(req, token) ==
  LET r == Response(req, <<"json", "rate", "config">>)
      role == IF req.ep = "login" THEN Student ELSE Professor
      expected == IF req.ep = "login" THEN cfg.APP_PASSWORD
                  ELSE cfg.PROF_PASSWORD
      password == readRequiredTextField(req.body, "password",
                                        MAX_PASSWORD_LENGTH)
  IN
  IF ~isAuthEnabled
    THEN [resp |-> sendError(r, ApiError(500, "AUTH_NOT_CONFIGURED",
                                         NoDetails, FALSE)),
          sessions |-> authSessions]
  ELSE IF req.ep = "prof-login" /\ cfg.PROF_PASSWORD = <<>>
    THEN [resp |-> sendError(r, ApiError(500, "PROF_AUTH_NOT_CONFIGURED",
                                         NoDetails, FALSE)),
          sessions |-> authSessions]
  ELSE IF ~password.ok
    THEN [resp |-> sendError([r EXCEPT !.stages = @ \o <<"validate">>],
                             password.error),
          sessions |-> authSessions]
  ELSE IF password.value # expected
    THEN [resp |-> sendError(
                     [r EXCEPT !.stages = @ \o <<"validate", "password">>],
                     ApiError(401, "INVALID_CREDENTIALS", NoDetails, FALSE)),
          sessions |-> authSessions]
  ELSE [resp |-> [r EXCEPT
                    !.stages = @ \o <<"validate", "password", "session">>,
                    !.token = token, !.role = role, !.data = "login"],
        sessions |-> createSessionToken(authSessions, token, role, now)]

\* A login answered with an error
LoginRefused(req) ==
  /\ req.ep \in {"login", "prof-login"}
  /\ Admitted(req, 0)
  /\ \E h \in {LoginHandler(req, NoToken)} :
       /\ h.resp.status # 200
       /\ resp' = h.resp
       /\ authSessions' = h.sessions
  /\ UNCHANGED pending

\* A login that creates a session
Login(req, token) ==
  /\ req.ep \in {"login", "prof-login"}
  /\ Admitted(req, 0)
  /\ \E h \in {LoginHandler(req, token)} :
       /\ h.resp.status = 200
       /\ resp' = h.resp
       /\ authSessions' = h.sessions
  /\ UNCHANGED pending

\* GET /api/auth/status; hasValidSession runs twice, at t1 and at t2.
StatusHandler(req, t1, t2) ==
  LET r == [Response(req, <<"json", "rate", "status">>)
              EXCEPT !.tFirst = t1, !.data = "status"]
      token == getBearerToken(req.authorization)
      first == hasValidSession(authSessions, token, t1)
      second == hasValidSession(first.sessions, token, t2)
  IN
  IF ~isAuthEnabled
    THEN [resp |-> [r EXCEPT !.authEnabled = "false",
                             !.authenticated = "true"],
          sessions |-> authSessions]
  ELSE [resp |-> [r EXCEPT
                    !.authEnabled = "true",
                    !.authenticated = Bool(first.valid),
                    !.token = token,
                    !.evicted = second.sessions # authSessions,
                    !.role = IF second.valid
                               THEN getSessionRole(second.sessions, token)
                               ELSE Student],
        sessions |-> second.sessions]

Status(req, d) ==
  /\ req.ep = "status"
  /\ Admitted(req, d)
  /\ \E h \in {StatusHandler(req, now, now + d)} :
       /\ resp' = h.resp
       /\ authSessions' = h.sessions
  /\ UNCHANGED pending

\* GET /api/health
Health(req) ==
  /\ req.ep = "health"
  /\ Admitted(req, 0)
  /\ resp' = [Response(req, <<"json", "rate", "health">>)
                EXCEPT !.data = "health",
                       !.authEnabled = Bool(isAuthEnabled)]
  /\ UNCHANGED <<authSessions, pending>>

\* Variant: the session is checked in open mode too.
requireSession(req) ==
  LET token == getBearerToken(req.authorization)
      session == hasValidSession(authSessions, token, now)
  IN [ok |-> session.valid, token |-> token, sessions |-> session.sessions]

\* requireAuth
requireAuth(req) ==
  LET token == getBearerToken(req.authorization)
      session == hasValidSession(authSessions, token, now)
  IN
  IF ~isAuthEnabled
    THEN [ok |-> TRUE, token |-> NoToken, sessions |-> authSessions]
    ELSE [ok |-> session.valid, token |-> token, sessions |-> session.sessions]

\* Variant: the upstream credential is never looked at.
AnyApiKey == TRUE

\* requireApiKey
HasApiKey == cfg.OPENAI_API_KEY

MissingApiKey == ApiError(500, "MISSING_API_KEY", NoDetails, FALSE)

\* The route of a protected endpoint up to its upstream fetch: the error
\* it throws first, if any, and the stages it went through.
RouteToFetch(req) ==
  LET field == IF req.ep = "podcast"
                 THEN readRequiredTextField(req.body, "text",
                                            MAX_PODCAST_TEXT_LENGTH)
                 ELSE readRequiredTextField(req.body, "content",
                                            MAX_CONTENT_LENGTH)
  IN
  IF req.ep = "podcast"
    THEN IF ~HasApiKey
           THEN [ok |-> FALSE, stages |-> <<"key">>, error |-> MissingApiKey]
         ELSE IF ~field.ok
           THEN [ok |-> FALSE, stages |-> <<"key", "validate">>,
                 error |-> field.error]
         ELSE [ok |-> TRUE, stages |-> <<"key", "validate", "upstream">>,
               error |-> OtherError("none")]
    ELSE IF ~field.ok
           THEN [ok |-> FALSE, stages |-> <<"validate">>, error |-> field.error]
         ELSE IF ~HasApiKey
           THEN [ok |-> FALSE, stages |-> <<"validate", "key">>,
                 error |-> MissingApiKey]
         ELSE [ok |-> TRUE, stages |-> <<"validate", "key", "upstream">>,
               error |-> OtherError("none")]

\* The auth middleware and the route of /summarize, /flashcards, /podcast
ProtectedHandler(req) ==
  LET auth == requireAuth(req)
      r == [Response(req, <<"json", "rate", "auth">>)
              EXCEPT !.token = auth.token,
                     !.evicted = auth.sessions # authSessions]
      route == RouteToFetch(req)
  IN
  IF ~auth.ok
    THEN [suspended |-> FALSE, sessions |-> auth.sessions,
          resp |-> sendError(r, ApiError(401, "UNAUTHORIZED", NoDetails, FALSE))]
  ELSE IF ~route.ok
    THEN [suspended |-> FALSE, sessions |-> auth.sessions,
          resp |-> sendError([r EXCEPT !.stages = @ \o route.stages],
                             route.error)]
  ELSE [suspended |-> TRUE, sessions |-> auth.sessions,
        resp |-> [r EXCEPT !.stages = @ \o route.stages]]

\* A protected request answered before any upstream call
Refuse(req) ==
  /\ req.ep \in ProtectedEndpoints
  /\ Admitted(req, 0)
  /\ \E h \in {ProtectedHandler(req)} :
       /\ ~h.suspended
       /\ resp' = h.resp
       /\ authSessions' = h.sessions
  /\ UNCHANGED pending

\* What a suspended handler still holds of its request
Suspended(r) ==
  [r EXCEPT !.req.authorization = NoAuthorization, !.req.body = NoBody,
            !.token = NoToken, !.evicted = FALSE]

\* Variant: a request that suspends is not counted by the limiter.
ForwardUncounted(req) ==
  /\ req.ep \in ProtectedEndpoints
  /\ Len(pending) < MaxPending
  /\ Idle
  /\ req.parse = "ok"
  /\ rateLimitMiddleware(rateBuckets, req.ip, now).allowed
  /\ allowLog' = Prune(Logged(allowLog, req.ip, now), now)
  /\ \E h \in {ProtectedHandler(req)} :
       /\ h.suspended
       /\ pending' = Append(pending, Suspended(h.resp))
       /\ authSessions' = h.sessions
  /\ UNCHANGED <<cfg, now, ticks, rateBuckets, sweepDue, resp, probe>>

\* A protected request that issues its upstream call and awaits it
Forward(req) ==
  /\ req.ep \in ProtectedEndpoints
  /\ Len(pending) < MaxPending
  /\ Admitted(req, 0)
  /\ \E h \in {ProtectedHandler(req)} :
       /\ h.suspended
       /\ pending' = Append(pending, Suspended(h.resp))
       /\ authSessions' = h.sessions
  /\ UNCHANGED resp

InvalidUpstream == ApiError(502, "UPSTREAM_INVALID_RESPONSE", NoDetails, FALSE)

\* The rest of a route once its fetch settles with `up`
CompletionHandler(r, up) ==
  LET r1 == [r EXCEPT !.stages = @ \o <<"response">>, !.upstream = up] IN
  IF up.kind = "rejected" THEN sendError(r1, OtherError("TypeError"))
  ELSE IF ~ResponseOk(up.status) THEN sendError(r1, readOpenAiError(up))
  ELSE IF r.req.ep = "podcast"
    THEN IF up.payload = "empty" THEN sendError(r1, InvalidUpstream)
         ELSE [r1 EXCEPT !.data = "audio"]
  ELSE IF up.payload = "invalidJson" THEN sendError(r1, InvalidUpstream)
  ELSE IF r.req.ep = "summarize"
    THEN [r1 EXCEPT !.data = IF up.payload \in {"noContent", "blank"}
                               THEN "fallback" ELSE "summary"]
  ELSE \* flashcards; reading a property of null throws a TypeError
    LET parsed == JsonParse(up.payload) IN
    IF ~parsed.ok THEN sendError(r1, InvalidUpstream)
    ELSE IF parsed.value = JsNull THEN sendError(r1, OtherError("TypeError"))
    ELSE [r1 EXCEPT !.data = IF parsed.flashcards.isArray
                               THEN "flashcards" ELSE "emptyList"]

\* Variant: the session is looked up again once the fetch has settled.
CompleteWithSession(i, up) ==
  /\ Idle
  /\ i \in 1..Len(pending)
  /\ resp' = IF isAuthEnabled
                  /\ \A token \in DOMAIN authSessions :
                       authSessions[token].expiresAt <= now
               THEN sendError([pending[i] EXCEPT !.stages = @ \o <<"response">>],
                              ApiError(401, "UNAUTHORIZED", NoDetails, FALSE))
               ELSE CompletionHandler(pending[i], up)
  /\ pending' = SubSeq(pending, 1, i - 1) \o SubSeq(pending, i + 1, Len(pending))
  /\ UNCHANGED <<cfg, now, ticks, rateBuckets, authSessions, sweepDue,
                 allowLog, probe>>

Complete(i, up) ==
  /\ Idle
  /\ i \in 1..Len(pending)
  /\ resp' = CompletionHandler(pending[i], up)
  /\ pending' = SubSeq(pending, 1, i - 1) \o SubSeq(pending, i + 1, Len(pending))
  /\ UNCHANGED <<cfg, now, ticks, rateBuckets, authSessions, sweepDue,
                 allowLog, probe>>

\* The clock advances between two events.
Tick(d) ==
  /\ Idle
  /\ ticks < MaxTicks
  /\ now' = now + d
  /\ ticks' = ticks + 1
  /\ allowLog' = Prune(allowLog, now + d)
  /\ UNCHANGED <<cfg, rateBuckets, authSessions, sweepDue, pending, resp,
                 probe>>

\* Variant: the sweep clears the rate buckets.
SweepEveryBucket(buckets, t) ==
  [ip \in {x \in DOMAIN buckets : FALSE} |-> buckets[ip]]

SweepBuckets(buckets, t) ==
  [ip \in {x \in DOMAIN buckets : ~(buckets[x].resetAt <= t)} |-> buckets[ip]]

\* Variant: a session that expires at the very reading of the sweep stays.
SweepSessionsBefore(sessions, t) ==
  [tk \in {x \in DOMAIN sessions : ~(sessions[x].expiresAt < t)} |-> sessions[tk]]

SweepSessions(sessions, t) ==
  [tk \in {x \in DOMAIN sessions : ~(sessions[x].expiresAt <= t)} |-> sessions[tk]]

\* The setInterval callback
Sweep ==
  /\ Idle
  /\ now >= sweepDue
  /\ rateBuckets' = SweepBuckets(rateBuckets, now)
  /\ authSessions' = SweepSessions(authSessions, now)
  /\ sweepDue' = now + SweepIntervalMs
  /\ UNCHANGED <<cfg, now, ticks, pending, allowLog, resp, probe>>

TickSteps == {30000}
LimiterTickSteps == {500, 30000}

Next ==
  \/ \E req \in UnparsedRequests : ParseFailure(req)
  \/ \E req \in DeniedRequests : Denied(req)
  \/ \E req \in LoginRequests : LoginRefused(req)
  \/ \E req \in LoginRequests, token \in TokenPool : Login(req, token)
  \/ \E req \in StatusRequests, d \in {0} \cup TickSteps : Status(req, d)
  \/ \E req \in HealthRequests : Health(req)
  \/ \E req \in ProtectedRequests : Refuse(req)
  \/ \E req \in ProtectedRequests : Forward(req)
  \/ \E i \in 1..Len(pending) :
       \E up \in UpstreamOutcomes(pending[i].req.ep) : Complete(i, up)
  \/ \E d \in TickSteps : Tick(d)
  \/ Sweep
  \/ Deliver

Spec == Init /\ [][Next]_vars

\* The limiter on its own: two clients polling /api/health.
InitLimiter == InitWith(LimiterConfigs, {NoProbe})

NextLimiter ==
  \/ \E req \in LimiterRequests : ParseFailure(req)
  \/ \E req \in LimiterRequests : Denied(req)
  \/ \E req \in LimiterRequests : Health(req)
  \/ \E d \in LimiterTickSteps : Tick(d)
  \/ Sweep
  \/ Deliver

SpecLimiter == InitLimiter /\ [][NextLimiter]_vars

\* readRequiredTextField on its own, over bodies of every JSON shape.
FieldStrings ==
  {<<>>, <<" ">>, <<"\t", "\n">>, <<"a">>, <<" ", "a", " ">>, <<"a", "b">>,
   <<"\t", "a", "b">>, <<"a", " ", "b">>, <<"a", "b", "c">>,
   <<" ", "a", "b", "c", " ">>, <<"a", "b", "c", "d">>,
   <<" ", "a", " ", "c", "d", "\n">>}

FieldValues ==
  {Undefined, JsNull, JsNumber(FALSE), JsNumber(TRUE),
   JsValue("boolean", TRUE, FALSE, <<>>), JsValue("object", TRUE, TRUE, <<>>),
   JsValue("object", TRUE, FALSE, <<>>)}
  \cup {JsString(str) : str \in FieldStrings}

FieldBodies ==
  {PrimitiveBody(v) : v \in FieldValues \ {JsValue("object", TRUE, FALSE, <<>>)}}
  \cup {ObjectBody(AllFields(v)) : v \in FieldValues}
  \cup {ObjectBody([NoFields EXCEPT ![f] = JsString(<<"a">>)]) : f \in FieldNames}

FieldLengths == {1, 2, 3}

FieldProbes ==
  {Probe(body, fieldName, maxLength) :
     body \in FieldBodies, fieldName \in FieldNames, maxLength \in FieldLengths}

InitField == InitWith({Config(<<"p">>, <<>>, TRUE, 60000, 2)}, FieldProbes)

\* The call returns or throws.
Validate ==
  /\ ~probe.done
  /\ probe' = [probe EXCEPT
                 !.done = TRUE,
                 !.result = readRequiredTextField(probe.body, probe.fieldName,
                                                  probe.maxLength)]
  /\ UNCHANGED <<cfg, now, ticks, rateBuckets, authSessions, sweepDue,
                 pending, allowLog, resp>>

NextField == Validate

SpecField == InitField /\ [][NextField]_vars

\* The gateway next to a twin that is sent the same requests at the same
\* clock readings and whose sweep timer never fires.  The twin's stores
\* are kept in `probe`, with whether it has agreed so far with every
\* decision of the limiter and every answer about a session.
Twin(buckets, sessions, agree) ==
  [buckets |-> buckets, sessions |-> sessions, agree |-> agree]

SweepConfigs ==
  {Config(<<"p">>, <<"q">>, TRUE, 30000, max) : max \in {1, 2}}

InitSweep == InitWith(SweepConfigs, {Twin(EmptyMap, EmptyMap, TRUE)})

\* The twin handles the request that the gateway has just answered.
Mirror ==
  /\ resp # NoResp
  /\ LET req == resp.req
         token == getBearerToken(req.authorization)
         rl == rateLimitMiddleware(probe.buckets, req.ip, now)
         session == hasValidSession(probe.sessions, token, now)
         role == IF session.valid
                   THEN getSessionRole(session.sessions, token)
                   ELSE Student
     IN
     probe' =
       Twin(rl.buckets,
            IF ~rl.allowed THEN probe.sessions
            ELSE IF req.ep = "status" /\ isAuthEnabled THEN session.sessions
            ELSE IF req.ep \in {"login", "prof-login"} /\ resp.status = 200
              THEN createSessionToken(probe.sessions, resp.token, resp.role, now)
            ELSE probe.sessions,
            /\ probe.agree
            /\ rl.allowed = (resp.code # "RATE_LIMITED")
            /\ rl.retryAfter = resp.retryAfter
            /\ (rl.allowed /\ req.ep = "status" /\ isAuthEnabled) =>
                 /\ Bool(session.valid) = resp.authenticated
                 /\ role = resp.role)
  /\ resp' = NoResp
  /\ UNCHANGED <<cfg, now, ticks, rateBuckets, authSessions, sweepDue,
                 pending, allowLog>>

SweepRequests ==
  {Request("health", ip, NoAuthorization, "ok", EmptyObject) : ip \in IPs}
  \cup
  {Request(ep, Client, NoAuthorization, "ok", b) :
     ep \in {"login", "prof-login"},
     b \in {TextBody(<<" ", "p", " ">>), TextBody(<<"q">>)}}
  \cup
  {Request("status", Client, a, "ok", EmptyObject) :
     a \in {NoAuthorization, BearerPrefix \o <<"t", "1">>,
            BearerPrefix \o <<" ", "t", "2", " ">>}}

NextSweep ==
  \/ \E req \in SweepRequests : Denied(req)
  \/ \E req \in SweepRequests : Health(req)
  \/ \E req \in SweepRequests : LoginRefused(req)
  \/ \E req \in SweepRequests, token \in TokenPool : Login(req, token)
  \/ \E req \in SweepRequests : Status(req, 0)
  \/ \E d \in TickSteps : Tick(d)
  \/ Sweep
  \/ Mirror

SpecSweep == InitSweep /\ [][NextSweep]_vars

\* The gateway with its browser client.  `probe` is the client's
\* localStorage entry eduboost_auth_token, NoToken when it is absent.
SessionConfigs == {Config(<<"p">>, <<"q">>, FALSE, 30000, 3)}

InitSession == InitWith(SessionConfigs, {NoToken})

\* buildHeaders: the Authorization header of the client's requests
buildHeaders(storage) ==
  IF storage # NoToken THEN BearerPrefix \o storage ELSE NoAuthorization

\* The headers the gateway may be sent: the client's own, and those of
\* whoever else holds a token.
SessionHeaders ==
  {buildHeaders(probe)} \cup {BearerPrefix \o token : token \in TokenPool}

SessionLogins ==
  {Request(ep, Client, NoAuthorization, "ok", TextBody(password)) :
     ep \in {"login", "prof-login"}, password \in {<<"p">>, <<"q">>}}

SessionStatus == {Request("status", Client, a, "ok", EmptyObject) : a \in SessionHeaders}

SessionCalls ==
  {Request("summarize", Client, a, "ok", TextBody(<<"p">>)) : a \in SessionHeaders}

\* The response reaches the client; loginWithPassword stores the token.
Receive ==
  /\ resp # NoResp
  /\ probe' = IF resp.data = "login" /\ resp.token # NoToken
                THEN resp.token ELSE probe
  /\ resp' = NoResp
  /\ UNCHANGED <<cfg, now, ticks, rateBuckets, authSessions, sweepDue,
                 pending, allowLog>>

\* logout() of the client
logout ==
  /\ Idle
  /\ probe' = NoToken
  /\ UNCHANGED <<cfg, now, ticks, rateBuckets, authSessions, sweepDue,
                 pending, allowLog, resp>>

NextSession ==
  \/ \E req \in SessionLogins \cup SessionStatus \cup SessionCalls : Denied(req)
  \/ \E req \in SessionLogins : LoginRefused(req)
  \/ \E req \in SessionLogins, token \in TokenPool : Login(req, token)
  \/ \E req \in SessionStatus, d \in {0} \cup TickSteps : Status(req, d)
  \/ \E req \in SessionCalls : Refuse(req)
  \/ \E d \in TickSteps : Tick(d)
  \/ Sweep
  \/ Receive
  \/ logout

SpecSession == InitSession /\ [][NextSession]_vars

(***************************************************************************)
(* Properties                                                              *)
(***************************************************************************)
InStages(r, stage) == \E i \in DOMAIN r.stages : r.stages[i] = stage

LastStage(r) == r.stages[Len(r.stages)]

\* The token has a stored session that has not expired at t.
LiveSession(sessions, token, t) ==
  /\ token # <<>>
  /\ token \in DOMAIN sessions
  /\ t < sessions[token].expiresAt

\* The step runs a handler that writes its response at once.
Answers == resp = NoResp /\ resp' # NoResp

\* The step suspends a handler on its upstream call.
Suspends == Len(pending') > Len(pending)

\* C1: with authentication enabled, a request to a protected endpoint that
\* the limiter lets through goes on to validation and to the upstream call
\* only if its bearer token has a stored session with expiresAt > now at the
\* auth check; every other one is answered 401 UNAUTHORIZED at the auth
\* stage and no upstream call is issued.
C1_AuthGatesProtected ==
  [][isAuthEnabled =>
       /\ Suspends =>
            \A req \in ProtectedRequests :
              Forward(req) =>
                LiveSession(authSessions, getBearerToken(req.authorization), now)
       /\ (Answers /\ resp'.req.ep \in ProtectedEndpoints
             /\ InStages(resp', "auth") /\ ~InStages(resp', "response")) =>
            IF LiveSession(authSessions,
                           getBearerToken(resp'.req.authorization), now)
              THEN /\ resp'.status # 401
                   /\ Len(resp'.stages) > 3
              ELSE /\ resp'.status = 401
                   /\ resp'.code = "UNAUTHORIZED"
                   /\ LastStage(resp') = "auth"
                   /\ pending' = pending]_vars

\* An expired token is refused while another request is at the upstream.
C1_Witness ==
  /\ isAuthEnabled
  /\ resp.req.ep \in ProtectedEndpoints
  /\ resp.status = 401
  /\ resp.evicted
  /\ pending # <<>>

\* Allowed requests of ip in the window of its current bucket
WindowCount(ip) ==
  IF ip \notin DOMAIN rateBuckets THEN 0
  ELSE Cardinality({i \in DOMAIN allowLog[ip] :
                      allowLog[ip][i] >=
                        rateBuckets[ip].resetAt - cfg.RATE_LIMIT_WINDOW_MS})

\* C2 as stated: for every client and every configured maxRequests the
\* limiter allows at most maxRequests requests within one window, and a
\* denial carries retryAfterSeconds > 0.
C2_AtMostMaxRequests ==
  /\ \A ip \in IPs : WindowCount(ip) <= cfg.RATE_LIMIT_MAX_REQUESTS
  /\ resp.code = "RATE_LIMITED" => resp.details.retryAfterSeconds > 0

\* C2, amended: for every client and every maxRequests >= 1 the limiter
\* allows at most maxRequests requests within one window and denies the
\* next with retryAfterSeconds > 0, the window still open and the cap
\* reached; with maxRequests <= 0 the request that opens a window is
\* allowed all the same, so exactly one per window gets through.
C2_AtMostMaxOrOne ==
  /\ \A ip \in IPs :
       WindowCount(ip) <= IF cfg.RATE_LIMIT_MAX_REQUESTS >= 1
                            THEN cfg.RATE_LIMIT_MAX_REQUESTS ELSE 1
  /\ resp.code = "RATE_LIMITED" =>
       /\ resp.details.retryAfterSeconds > 0
       /\ now < rateBuckets[resp.req.ip].resetAt
       /\ WindowCount(resp.req.ip) >= cfg.RATE_LIMIT_MAX_REQUESTS
       /\ WindowCount(resp.req.ip) >= 1

\* The third request of a window is denied under a cap of two.
C2_Witness ==
  /\ resp.code = "RATE_LIMITED"
  /\ cfg.RATE_LIMIT_MAX_REQUESTS = 2
  /\ WindowCount(resp.req.ip) = 2

CandidateTokens == TokenPool \cup {NoToken, UnknownToken}

\* C3: hasValidSession(token) is true exactly when the token is non-empty,
\* stored and now < expiresAt, swept or not; /auth/status reports just that
\* as `authenticated`.
C3_ValidExactlyWhenLive ==
  [][/\ \A token \in CandidateTokens :
          hasValidSession(authSessions, token, now).valid
            <=> LiveSession(authSessions, token, now)
     /\ (isAuthEnabled /\ Answers /\ resp'.data = "status") =>
          ((resp'.authenticated = "true")
             <=> LiveSession(authSessions,
                             getBearerToken(resp'.req.authorization), now))
    ]_vars

\* /auth/status finds a session expired that no sweep has removed.
C3_Witness ==
  /\ resp.data = "status"
  /\ resp.authenticated = "false"
  /\ resp.token \in TokenPool
  /\ resp.evicted
  /\ resp.tFirst = now
  /\ sweepDue = SweepIntervalMs

\* The request carries `password` as its password, surrounding whitespace
\* aside.
Carries(req, password) ==
  /\ req.body.value.type = "object"
  /\ req.body.value.truthy
  /\ ~req.body.value.isArray
  /\ req.body.fields["password"].type = "string"
  /\ Trim(req.body.fields["password"].str) = password

ConfiguredPassword(ep) ==
  IF ep = "login" THEN cfg.APP_PASSWORD ELSE cfg.PROF_PASSWORD

LaterStages ==
  {"jsonError", "config", "status", "health", "auth", "validate", "key",
   "password", "session", "upstream", "response"}

\* C5 as stated: every request goes through the rate-limit check, the check
\* comes before every other stage (the handling of a body that fails to
\* parse, authentication, validation, the business call), and
\* authentication comes before validation on the protected endpoints.
C5_RateLimitFirst ==
  resp # NoResp =>
    /\ InStages(resp, "rate")
    /\ \A i \in DOMAIN resp.stages :
         resp.stages[i] \in LaterStages =>
           \E j \in 1..(i - 1) : resp.stages[j] = "rate"
    /\ \A i \in DOMAIN resp.stages :
         (resp.req.ep \in ProtectedEndpoints /\ resp.stages[i] = "validate") =>
           \E j \in 1..(i - 1) : resp.stages[j] = "auth"

FailureStage(code) ==
  CASE code = "RATE_LIMITED" -> "rate"
    [] code = "UNAUTHORIZED" -> "auth"
    [] code \in {"INVALID_INPUT", "INPUT_TOO_LARGE"} -> "validate"
    [] code = "MISSING_API_KEY" -> "key"

FailureStatus(code) ==
  CASE code = "RATE_LIMITED" -> 429
    [] code = "UNAUTHORIZED" -> 401
    [] code \in {"INVALID_INPUT", "INPUT_TOO_LARGE"} -> 400
    [] code = "MISSING_API_KEY" -> 500

\* The field of a request's body that its endpoint validates is a string
\* with something but whitespace in it, within the cap once trimmed.
FieldAccepted(req) ==
  LET field == IF req.ep = "podcast" THEN "text" ELSE "content"
      cap == IF req.ep = "podcast" THEN MAX_PODCAST_TEXT_LENGTH
             ELSE MAX_CONTENT_LENGTH
  IN
  /\ req.body.value.type = "object"
  /\ req.body.value.truthy
  /\ ~req.body.value.isArray
  /\ req.body.fields[field].type = "string"
  /\ \E i \in DOMAIN req.body.fields[field].str :
       ~IsWhitespace(req.body.fields[field].str[i])
  /\ Len(Trim(req.body.fields[field].str)) <= cap

\* C6: a request that is rate-limited, fails authentication, fails field
\* validation or finds the upstream credential missing is answered at that
\* stage with that stage's error and status, issues no upstream call and
\* adds or changes no session; an upstream call is issued only for a request
\* that failed none of them.
C6_ShortCircuit ==
  [][/\ (Answers /\ resp'.code \in {"RATE_LIMITED", "UNAUTHORIZED",
                                    "INVALID_INPUT", "INPUT_TOO_LARGE",
                                    "MISSING_API_KEY"}) =>
          /\ LastStage(resp') = FailureStage(resp'.code)
          /\ resp'.status = FailureStatus(resp'.code)
          /\ ~InStages(resp', "upstream")
          /\ ~InStages(resp', "session")
          /\ resp'.upstream = NoUpstream
          /\ resp'.data = ""
          /\ pending' = pending
          /\ \A token \in DOMAIN authSessions' :
               /\ token \in DOMAIN authSessions
               /\ authSessions'[token] = authSessions[token]
     /\ Suspends =>
          /\ resp' = NoResp
          /\ \A req \in ProtectedRequests :
               Forward(req) =>
                 /\ cfg.OPENAI_API_KEY
                 /\ FieldAccepted(req)
                 /\ isAuthEnabled =>
                      LiveSession(authSessions,
                                  getBearerToken(req.authorization), now)
                 /\ WindowCount(req.ip) < cfg.RATE_LIMIT_MAX_REQUESTS
                      \/ req.ip \notin DOMAIN rateBuckets
                      \/ rateBuckets[req.ip].resetAt <= now]_vars

\* A request with a live session and a valid field stops at the missing
\* upstream credential.
C6_Witness ==
  /\ resp.code = "MISSING_API_KEY"
  /\ resp.status = 500
  /\ isAuthEnabled
  /\ resp.token \in DOMAIN authSessions
  /\ resp.req.ep = "summarize"

DigitValue(c) == CHOOSE d \in 0..9 : Digits[d + 1] = c

RECURSIVE DecimalValue(_)
DecimalValue(str) ==
  IF str = <<>> THEN 0
  ELSE 10 * DecimalValue(SubSeq(str, 1, Len(str) - 1))
       + DigitValue(str[Len(str)])

\* C7: a denial is answered 429 RATE_LIMITED with details.retryAfterSeconds
\* the least number of whole seconds that covers resetAt - now of the
\* client's bucket, and with a Retry-After header that reads as that number.
C7_RetryAfter ==
  resp.code = "RATE_LIMITED" =>
    LET ms == rateBuckets[resp.req.ip].resetAt - now
        seconds == resp.details.retryAfterSeconds
    IN
    /\ resp.status = 429
    /\ (seconds - 1) * 1000 < ms
    /\ ms <= seconds * 1000
    /\ resp.retryAfter # <<>>
    /\ \A i \in DOMAIN resp.retryAfter :
         \E d \in 0..9 : Digits[d + 1] = resp.retryAfter[i]
    /\ DecimalValue(resp.retryAfter) = seconds
    /\ resp.details.windowMs = cfg.RATE_LIMIT_WINDOW_MS
    /\ resp.details.maxRequests = cfg.RATE_LIMIT_MAX_REQUESTS

\* A denial a second and a half before the window ends
C7_Witness ==
  /\ resp.code = "RATE_LIMITED"
  /\ rateBuckets[resp.req.ip].resetAt - now = 1500
  /\ resp.details.retryAfterSeconds = 2

\* C8 as stated: in open mode no protected endpoint answers 401,
\* /auth/status reports the caller authenticated, and no request fails
\* because authentication is disabled.
C8_OpenModeNeverFails ==
  (~isAuthEnabled /\ resp # NoResp) =>
    /\ resp.status # 401
    /\ resp.data = "status" => checkAuthStatus(resp).authenticated
    /\ resp.code \notin {"AUTH_NOT_CONFIGURED", "PROF_AUTH_NOT_CONFIGURED"}

\* C8, amended: in open mode requireAuth lets every request through
\* whatever its Authorization header, no response is a 401, /auth/status
\* reports the caller authenticated and the client takes it for a student;
\* only /auth/login and /auth/prof-login fail because authentication is
\* disabled, with 500 AUTH_NOT_CONFIGURED and no session.
C8_OpenModeButLogin ==
  (~isAuthEnabled /\ resp # NoResp) =>
    /\ resp.status # 401
    /\ authSessions = EmptyMap
    /\ (resp.req.ep \in ProtectedEndpoints /\ InStages(resp, "auth")) =>
         /\ Len(resp.stages) > 3
         /\ resp.code # "UNAUTHORIZED"
    /\ resp.data = "status" =>
         /\ resp.authEnabled = "false"
         /\ checkAuthStatus(resp) = [authenticated |-> TRUE, role |-> "student"]
    /\ (resp.code \in {"AUTH_NOT_CONFIGURED", "PROF_AUTH_NOT_CONFIGURED"})
         <=> (resp.req.ep \in {"login", "prof-login"} /\ InStages(resp, "config"))
    /\ InStages(resp, "config") =>
         /\ resp.status = 500
         /\ resp.code = "AUTH_NOT_CONFIGURED"
         /\ resp.token = <<>>

\* In open mode a request with an unknown token gets as far as validation.
C8_Witness ==
  /\ ~isAuthEnabled
  /\ resp.req.ep \in ProtectedEndpoints
  /\ resp.req.authorization = BearerPrefix \o UnknownToken
  /\ InStages(resp, "validate")
  /\ resp.code = "INVALID_INPUT"

\* The field of the probed call, when the body is an object holding a
\* string under that name
HasText(p) ==
  /\ p.body.value.type = "object"
  /\ p.body.value.truthy
  /\ ~p.body.value.isArray
  /\ p.body.fields[p.fieldName].type = "string"
  /\ \E i \in DOMAIN p.body.fields[p.fieldName].str :
       ~IsWhitespace(p.body.fields[p.fieldName].str[i])

\* s without its leading and trailing whitespace, s not blank
Trimmed(s) ==
  LET inked == {i \in DOMAIN s : ~IsWhitespace(s[i])}
      first == CHOOSE i \in inked : \A j \in inked : i <= j
      last == CHOOSE i \in inked : \A j \in inked : j <= i
  IN SubSeq(s, first, last)

\* C9: readRequiredTextField fails with 400 INVALID_INPUT when the body is
\* not an object, the field is missing or no string, or the field is blank;
\* with 400 INPUT_TOO_LARGE and details {field, maxLength} when the trimmed
\* field is longer than maxLength; otherwise it returns the trimmed field.
\* It leaves the session store and the rate buckets alone.
C9_RequiredTextField ==
  probe.done =>
    /\ authSessions = EmptyMap
    /\ rateBuckets = EmptyMap
    /\ IF ~HasText(probe)
         THEN /\ ~probe.result.ok
              /\ probe.result.error.isApiError
              /\ probe.result.error.status = 400
              /\ probe.result.error.code = "INVALID_INPUT"
       ELSE IF Len(Trimmed(probe.body.fields[probe.fieldName].str))
                 > probe.maxLength
         THEN /\ ~probe.result.ok
              /\ probe.result.error.isApiError
              /\ probe.result.error.status = 400
              /\ probe.result.error.code = "INPUT_TOO_LARGE"
              /\ probe.result.error.details.field = probe.fieldName
              /\ probe.result.error.details.maxLength = probe.maxLength
       ELSE /\ probe.result.ok
            /\ probe.result.value
                 = Trimmed(probe.body.fields[probe.fieldName].str)

\* A padded field as long as the cap once trimmed is returned trimmed.
C9_Witness ==
  /\ probe.done
  /\ probe.result.ok
  /\ Len(probe.result.value) = probe.maxLength
  /\ Len(probe.body.fields[probe.fieldName].str) > probe.maxLength

\* C10: an upstream answer outside 200..299 reaches the client as 429
\* UPSTREAM_RATE_LIMIT for 429, 502 UPSTREAM_AUTH_ERROR for 401 and 403,
\* 502 UPSTREAM_UNAVAILABLE from 500 up, 502 UPSTREAM_ERROR otherwise; a
\* 401 to the client comes from the session check or from a login, never
\* from the upstream.
C10_UpstreamStatusMapping ==
  resp # NoResp =>
    /\ (resp.upstream.kind = "response"
          /\ ~(200 <= resp.upstream.status /\ resp.upstream.status <= 299)) =>
         /\ resp.details.kind = "upstream"
         /\ resp.requestId = resp.upstream.hasRequestId
         /\ IF resp.upstream.status = 429
              THEN resp.status = 429 /\ resp.code = "UPSTREAM_RATE_LIMIT"
            ELSE IF resp.upstream.status \in {401, 403}
              THEN resp.status = 502 /\ resp.code = "UPSTREAM_AUTH_ERROR"
            ELSE IF resp.upstream.status >= 500
              THEN resp.status = 502 /\ resp.code = "UPSTREAM_UNAVAILABLE"
            ELSE resp.status = 502 /\ resp.code = "UPSTREAM_ERROR"
    /\ resp.status = 401 =>
         /\ resp.upstream = NoUpstream
         /\ ~InStages(resp, "upstream")
         /\ \/ resp.code = "UNAUTHORIZED" /\ LastStage(resp) = "auth"
            \/ /\ resp.code = "INVALID_CREDENTIALS"
               /\ resp.req.ep \in {"login", "prof-login"}

\* The upstream refuses the gateway's credential; the client, whose session
\* is good, is told 502.
C10_Witness ==
  /\ isAuthEnabled
  /\ resp.upstream.kind = "response"
  /\ resp.upstream.status = 401
  /\ resp.status = 502
  /\ resp.code = "UPSTREAM_AUTH_ERROR"

\* Values a handler can throw: ApiErrors, Errors of other classes and
\* values that are no Error.
Throwables ==
  {ApiError(st, code, NoDetails, rid) :
     st \in {400, 429, 502}, code \in {"INVALID_INPUT", "UPSTREAM_ERROR"},
     rid \in BOOLEAN}
  \cup {OtherError(kind) :
          kind \in {"Error", "TypeError", "SyntaxError", "entity.too.large",
                    "string", "null", "undefined"}}

\* C11: normalizeError gives an ApiError's own status, code, message,
\* details and requestId, and for every other thrown value 500
\* INTERNAL_ERROR with the generic message, no details and no requestId;
\* every failing response carries a code and a message written in the
\* gateway, with a status outside 200..299, and never the text of an
\* exception.
C11_NormalizedErrors ==
  /\ \A error \in Throwables :
       normalizeError(error) =
         IF error.isApiError
           THEN [status |-> error.status, code |-> error.code,
                 message |-> <<"literal", error.code>>,
                 details |-> error.details, requestId |-> error.requestId]
           ELSE [status |-> 500, code |-> "INTERNAL_ERROR",
                 message |-> <<"literal", "INTERNAL_ERROR">>,
                 details |-> NoDetails, requestId |-> FALSE]
  /\ resp # NoResp =>
       IF resp.code = ""
         THEN /\ resp.status = 200
              /\ resp.message = <<>>
              /\ resp.data # ""
         ELSE /\ resp.status >= 400
              /\ resp.status <= 599
              /\ resp.message = <<"literal", resp.code>>
              /\ resp.data = ""
              /\ resp.code = "INTERNAL_ERROR" =>
                   /\ resp.status = 500
                   /\ resp.details = NoDetails
                   /\ ~resp.requestId
              /\ resp.upstream.kind = "rejected" => resp.code = "INTERNAL_ERROR"
              /\ resp.req.parse = "entity.too.large" =>
                   resp.code = "INTERNAL_ERROR"

\* The fetch is rejected and its TypeError is answered as an internal error.
C11_Witness ==
  /\ resp.upstream.kind = "rejected"
  /\ resp.status = 500
  /\ resp.code = "INTERNAL_ERROR"
  /\ resp.message = <<"literal", "INTERNAL_ERROR">>

\* C12 as stated: getSessionRole gives the stored role only for a token
\* whose session is stored and not expired, and "student" for every empty,
\* unknown or expired token, swept or not.
C12_RoleOnlyWhenLive ==
  \A token \in CandidateTokens :
    getSessionRole(authSessions, token) =
      IF LiveSession(authSessions, token, now)
        THEN authSessions[token].role
        ELSE "student"

\* C13 as stated: for /flashcards with a successful upstream response, a
\* payload that is no JSON is answered 502 UPSTREAM_INVALID_RESPONSE, and
\* every payload that is JSON without an array under flashcards, null and
\* non-objects included, is answered 200 with an empty list.
C13_FlashcardsDefault ==
  (resp.req.ep = "flashcards" /\ resp.upstream.kind = "response"
     /\ resp.upstream.status >= 200 /\ resp.upstream.status <= 299) =>
    IF resp.upstream.payload \in {"invalidJson", "blank", "text"}
      THEN resp.status = 502 /\ resp.code = "UPSTREAM_INVALID_RESPONSE"
    ELSE IF resp.upstream.payload = "jsonArray"
      THEN resp.status = 200 /\ resp.data = "flashcards"
    ELSE resp.status = 200 /\ resp.code = "" /\ resp.data = "emptyList"

\* The step is the answer to a request that was suspended on its fetch.
Resumes == Len(pending') < Len(pending)

\* The step is a run of the sweep.
Sweeps == sweepDue' # sweepDue

StageFailures ==
  {"RATE_LIMITED", "UNAUTHORIZED", "INVALID_INPUT", "INPUT_TOO_LARGE",
   "MISSING_API_KEY", "INVALID_JSON"}

\* C14: a sweep leaves the suspended requests as they are, and a request
\* that was suspended on its upstream call is answered from the outcome of
\* that call alone, whatever has become of its session meanwhile: it keeps
\* the stages it passed, is never answered 401 or with the error of an
\* earlier stage, and a sound upstream answer gives 200.
C14_SweepSparesInFlight ==
  [][/\ Sweeps => (pending' = pending /\ resp' = resp)
     /\ Resumes =>
          /\ resp'.status # 401
          /\ resp'.code \notin StageFailures
          /\ authSessions' = authSessions
          /\ \E i \in DOMAIN pending :
               /\ resp'.req = pending[i].req
               /\ resp'.stages = pending[i].stages \o <<"response">>
               /\ InStages(pending[i], "auth")
               /\ InStages(pending[i], "validate")
               /\ LastStage(pending[i]) = "upstream"
          /\ (resp'.upstream.kind = "response" /\ resp'.upstream.status = 200
                /\ resp'.upstream.payload \in {"text", "jsonArray", "audio"}
                /\ resp'.req.ep # "flashcards") =>
               (resp'.status = 200 /\ resp'.data \in {"summary", "audio"})]_vars

\* A summary is delivered although the session that admitted the request
\* has been swept while the upstream call was pending.
C14_Witness ==
  /\ isAuthEnabled
  /\ authSessions = EmptyMap
  /\ sweepDue # SweepIntervalMs
  /\ rateBuckets = EmptyMap
  /\ InStages(resp, "response")
  /\ resp.status = 200
  /\ resp.data = "summary"

\* The step is a request of ip that reaches the limiter.
Arrives(ip) ==
  /\ Answers
  /\ resp'.req.ip = ip
  /\ InStages(resp', "rate")

FreshBucket == [count |-> 1, resetAt |-> now + cfg.RATE_LIMIT_WINDOW_MS]

\* C15: every bucket has count >= 1; a bucket changes only by a request of
\* its client that is allowed, either by one more count while now < resetAt
\* and count < maxRequests, resetAt untouched, or by being replaced with
\* count 1 and resetAt = now + window when now >= resetAt; a request that
\* finds no bucket, or one with now >= resetAt, is allowed and leaves such a
\* fresh bucket.
C15_BucketLifecycle ==
  [][\A ip \in IPs :
       /\ ip \in DOMAIN rateBuckets' => rateBuckets'[ip].count >= 1
       /\ (ip \in DOMAIN rateBuckets /\ ip \in DOMAIN rateBuckets'
             /\ rateBuckets'[ip] # rateBuckets[ip]) =>
            /\ Arrives(ip)
            /\ resp'.code # "RATE_LIMITED"
            /\ IF now < rateBuckets[ip].resetAt
                 THEN /\ rateBuckets[ip].count < cfg.RATE_LIMIT_MAX_REQUESTS
                      /\ rateBuckets'[ip].count = rateBuckets[ip].count + 1
                      /\ rateBuckets'[ip].resetAt = rateBuckets[ip].resetAt
                 ELSE rateBuckets'[ip] = FreshBucket
       /\ (Arrives(ip) /\ (ip \notin DOMAIN rateBuckets
                             \/ rateBuckets[ip].resetAt <= now)) =>
            /\ resp'.code # "RATE_LIMITED"
            /\ ip \in DOMAIN rateBuckets'
            /\ rateBuckets'[ip] = FreshBucket
       /\ (Arrives(ip) /\ resp'.code = "RATE_LIMITED") =>
            rateBuckets' = rateBuckets]_vars

\* A request at the very end of a window replaces the bucket that allowed
\* an earlier request.
C15_Witness ==
  \E ip \in IPs :
    /\ ip \in DOMAIN rateBuckets
    /\ rateBuckets[ip] = FreshBucket
    /\ Len(allowLog[ip]) = 2
    /\ allowLog[ip][1] < now
    /\ resp.req.ip = ip
    /\ resp.data = "health"

\* C16 as stated: on /summarize, /flashcards and /podcast a request that
\* passed the auth check and whose required field is missing, no string,
\* blank or too long is answered with the 400 validation error, whether or
\* not the upstream credential is configured.
C16_ValidationBeforeCredential ==
  (resp.req.ep \in ProtectedEndpoints /\ InStages(resp, "auth")
     /\ ~InStages(resp, "response") /\ resp.code # "UNAUTHORIZED"
     /\ ~FieldAccepted(resp.req)) =>
    /\ resp.status = 400
    /\ resp.code \in {"INVALID_INPUT", "INPUT_TOO_LARGE"}
    /\ LastStage(resp) = "validate"

\* Requests of ip that the limiter allowed in the last window's length of
\* time, that is at clock readings in (now - window, now]
AllowedLately(ip) == Len(allowLog[ip])

\* C17 as stated: for every client, in every time interval as long as the
\* window the limiter allows at most 2 x maxRequests requests.
C17_BurstBound ==
  \A ip \in IPs : AllowedLately(ip) <= 2 * cfg.RATE_LIMIT_MAX_REQUESTS

\* C17, amended: for every client and every maxRequests >= 1, in every time
\* interval as long as the window the limiter allows at most 2 x maxRequests
\* requests, sweeps or not; with maxRequests <= 0 the request that opens a
\* window is allowed, so the bound is 2 x max(1, maxRequests).
C17_BurstBoundOrTwo ==
  \A ip \in IPs :
    /\ \A i \in DOMAIN allowLog[ip] :
         now - cfg.RATE_LIMIT_WINDOW_MS < allowLog[ip][i] /\ allowLog[ip][i] <= now
    /\ AllowedLately(ip) <= IF cfg.RATE_LIMIT_MAX_REQUESTS >= 1
                              THEN 2 * cfg.RATE_LIMIT_MAX_REQUESTS ELSE 2

\* Across the edge of two windows a client gets more requests through than
\* one window's cap.
C17_Witness ==
  \E ip \in IPs :
    /\ cfg.RATE_LIMIT_MAX_REQUESTS = 2
    /\ AllowedLately(ip) = 3
    /\ allowLog[ip][1] < allowLog[ip][3]

\* C18: a run of the sweep removes every bucket with resetAt <= now and
\* every session with expiresAt <= now and nothing else: right after it
\* neither store holds an expired entry, and the entries that have not
\* expired are all still there, unchanged.
C18_SweepRemovesExpired ==
  [][Sweeps =>
       /\ \A ip \in DOMAIN rateBuckets' : rateBuckets'[ip].resetAt > now'
       /\ \A token \in DOMAIN authSessions' : authSessions'[token].expiresAt > now'
       /\ DOMAIN rateBuckets' =
            {ip \in DOMAIN rateBuckets : rateBuckets[ip].resetAt > now}
       /\ DOMAIN authSessions' =
            {token \in DOMAIN authSessions : authSessions[token].expiresAt > now}
       /\ \A ip \in DOMAIN rateBuckets' : rateBuckets'[ip] = rateBuckets[ip]
       /\ \A token \in DOMAIN authSessions' :
            authSessions'[token] = authSessions[token]
       /\ now' = now]_vars

\* A sweep has just removed the bucket of the client whose session, not yet
\* expired, it has kept.
C18_Witness ==
  /\ now >= SweepIntervalMs
  /\ sweepDue = now + SweepIntervalMs
  /\ resp = NoResp
  /\ rateBuckets = EmptyMap
  /\ authSessions # EmptyMap
  /\ \A token \in DOMAIN authSessions : authSessions[token].expiresAt > now

\* C19 as stated: for every configured window the sweep runs at least once
\* per window: at no time is the next run of the sweep scheduled further
\* away than one window's length.
C19_SweepEveryWindow ==
  sweepDue - now <= cfg.RATE_LIMIT_WINDOW_MS

\* C19, amended: the sweep is scheduled every max(30000, window)
\* milliseconds: once per window for a window of 30 seconds or more, every
\* 30 seconds, which is less often than once per window, for a shorter one;
\* two runs are never closer to each other than one window's length.
C19_SweepPeriod ==
  [][Sweeps =>
       /\ now >= sweepDue
       /\ now' = now
       /\ sweepDue' - now >= cfg.RATE_LIMIT_WINDOW_MS
       /\ IF cfg.RATE_LIMIT_WINDOW_MS >= 30000
            THEN sweepDue' - now = cfg.RATE_LIMIT_WINDOW_MS
            ELSE sweepDue' - now = 30000]_vars

\* With a window of one second the sweep has run and is due again half a
\* minute later.
C19_Witness ==
  /\ cfg.RATE_LIMIT_WINDOW_MS = 1000
  /\ now >= 30000
  /\ sweepDue = now + 30000

\* C20: whatever the requests, logins and clock advances, and wherever the
\* sweep runs in between, the limiter decides every request and
\* hasValidSession answers every call as they do in the run without
\* sweeps; between two requests the stores differ from those of that run
\* only by entries that have expired.
C20_SweepTransparent ==
  /\ probe.agree
  /\ resp = NoResp =>
       /\ \A ip \in DOMAIN rateBuckets :
            ip \in DOMAIN probe.buckets /\ probe.buckets[ip] = rateBuckets[ip]
       /\ \A ip \in DOMAIN probe.buckets :
            ip \in DOMAIN rateBuckets \/ probe.buckets[ip].resetAt <= now
       /\ \A token \in DOMAIN authSessions :
            /\ token \in DOMAIN probe.sessions
            /\ probe.sessions[token] = authSessions[token]
       /\ \A token \in DOMAIN probe.sessions :
            token \in DOMAIN authSessions
              \/ probe.sessions[token].expiresAt <= now

\* /auth/status is asked about a session that the sweep has removed and
\* that the run without sweeps still holds, expired; the client's bucket was
\* swept as well.
C20_Witness ==
  /\ resp.data = "status"
  /\ resp.authenticated = "false"
  /\ ~resp.evicted
  /\ resp.token \in DOMAIN probe.sessions
  /\ resp.token \notin DOMAIN authSessions
  /\ probe.buckets[resp.req.ip].resetAt <= now
  /\ probe.agree

\* A login answers with a session under this token.
Creates(token) ==
  resp = NoResp /\ resp'.data = "login" /\ resp'.token = token

Stored(sessions, token) == token \in DOMAIN sessions

\* C21: a session keeps the role and the expiresAt it was created with,
\* expiresAt being the creation time plus the TTL; unless a login draws its
\* token again, no login, lookup, status call, protected call, sweep or
\* logout of the client changes it, removes it before expiresAt or brings
\* it back; the token is accepted exactly while the clock is below
\* expiresAt, and once rejected it stays rejected.
C21_LifetimeFixed ==
  [][\A token \in TokenPool :
       /\ Creates(token) =>
            /\ Stored(authSessions', token)
            /\ authSessions'[token].expiresAt = now + SESSION_TTL_MS
            /\ authSessions'[token].role = resp'.role
       /\ ~Creates(token) =>
            /\ Stored(authSessions', token) =>
                 /\ Stored(authSessions, token)
                 /\ authSessions'[token] = authSessions[token]
            /\ (Stored(authSessions, token)
                  /\ now' < authSessions[token].expiresAt) =>
                 Stored(authSessions', token)
            /\ ~hasValidSession(authSessions, token, now).valid =>
                 ~hasValidSession(authSessions', token, now').valid
       /\ hasValidSession(authSessions', token, now').valid <=>
            /\ Stored(authSessions', token)
            /\ authSessions'[token].expiresAt - SESSION_TTL_MS <= now'
            /\ now' < authSessions'[token].expiresAt
       /\ (Answers /\ resp'.token = token /\ resp'.data = "status") =>
            (resp'.authenticated = "true" <=>
               /\ Stored(authSessions, token)
               /\ now < authSessions[token].expiresAt)
       /\ (Answers /\ resp'.token = token /\ InStages(resp', "auth")) =>
            (resp'.code = "UNAUTHORIZED" <=>
               ~(/\ Stored(authSessions, token)
                 /\ now < authSessions[token].expiresAt))
    ]_vars

\* The client has logged out, the clock has advanced since the login, and
\* a status call that presents the token is still answered as
\* authenticated, the session being as it was created.
C21_Witness ==
  /\ probe = NoToken
  /\ resp.data = "status"
  /\ resp.authenticated = "true"
  /\ Stored(authSessions, resp.token)
  /\ authSessions[resp.token].expiresAt = SESSION_TTL_MS
  /\ now > 0

\* The requests of ip that the limiter allowed from clock reading t on
AllowedSince(log, ip, t) == Len(SelectSeq(log[ip], LAMBDA x : x >= t))

WindowStart(bucket) == bucket.resetAt - cfg.RATE_LIMIT_WINDOW_MS

\* C22: whatever the interleaving of requests, suspended handlers,
\* completions and sweeps, the count of a bucket whose window is open is
\* the number of requests of that client the limiter allowed since the
\* window began, whether they went on to fail, to suspend or to succeed;
\* a bucket whose window has elapsed keeps that count until it is replaced
\* or swept.
C22_NoLostUpdates ==
  [][\A ip \in IPs :
       /\ (ip \in DOMAIN rateBuckets' /\ now' < rateBuckets'[ip].resetAt) =>
            rateBuckets'[ip].count =
              AllowedSince(allowLog', ip, WindowStart(rateBuckets'[ip]))
       /\ (/\ ip \in DOMAIN rateBuckets
           /\ ip \in DOMAIN rateBuckets'
           /\ rateBuckets[ip].resetAt <= now) =>
            \/ rateBuckets'[ip] = rateBuckets[ip]
            \/ rateBuckets'[ip] =
                 [count |-> 1, resetAt |-> now + cfg.RATE_LIMIT_WINDOW_MS]
    ]_vars

\* After a sweep has run, one allowed request is suspended on its upstream
\* call, another has failed validation, and the bucket counts both.
C22_Witness ==
  /\ Len(pending) = 1
  /\ resp.status = 400
  /\ InStages(resp, "validate")
  /\ Client \in DOMAIN rateBuckets
  /\ rateBuckets[Client].count = 2
  /\ now < rateBuckets[Client].resetAt
  /\ now > 0
  /\ sweepDue = now + SweepIntervalMs

\* C23: with authentication enabled, an /auth/status response that reports
\* authenticated = true reports the role stored for the presented token,
\* and one that reports authenticated = false reports the role student,
\* also when the clock passes the session's expiresAt between the two
\* hasValidSession calls of the handler.
C23_StatusRoleConsistent ==
  [][(Answers /\ resp'.data = "status" /\ resp'.authEnabled = "true") =>
       /\ resp'.authenticated = "true" =>
            /\ Stored(authSessions, resp'.token)
            /\ resp'.role = authSessions[resp'.token].role
       /\ resp'.authenticated = "false" => resp'.role = Student
    ]_vars

\* The limiter denies the request answered in this step.
Denies == Answers /\ resp'.code = "RATE_LIMITED"

\* C24: a request the limiter denies leaves every bucket as it was, the
\* client's own count and resetAt included, so that a request of that
\* client at its bucket's resetAt or later is allowed however many were
\* denied before; and a request that arrives at or after the resetAt of its
\* client's bucket is never denied.
C24_DenialLeavesBuckets ==
  [][/\ Denies =>
          /\ rateBuckets' = rateBuckets
          /\ now' = now
          /\ resp'.req.ip \in DOMAIN rateBuckets
          /\ now < rateBuckets[resp'.req.ip].resetAt
          /\ \A t \in {rateBuckets[resp'.req.ip].resetAt,
                       rateBuckets[resp'.req.ip].resetAt + 500} :
               rateLimitMiddleware(rateBuckets', resp'.req.ip, t).allowed
     /\ (/\ Answers
         /\ InStages(resp', "rate")
         /\ resp'.req.ip \in DOMAIN rateBuckets
         /\ rateBuckets[resp'.req.ip].resetAt <= now) =>
          /\ ~Denies
          /\ rateBuckets'[resp'.req.ip] =
               [count |-> 1, resetAt |-> now + cfg.RATE_LIMIT_WINDOW_MS]
    ]_vars

\* A request is denied some time into its client's window, the other
\* client holding a bucket as well.
C24_Witness ==
  /\ resp.code = "RATE_LIMITED"
  /\ DOMAIN rateBuckets = IPs
  /\ now < rateBuckets[resp.req.ip].resetAt
  /\ now > rateBuckets[resp.req.ip].resetAt - cfg.RATE_LIMIT_WINDOW_MS
  /\ rateBuckets[resp.req.ip].count = cfg.RATE_LIMIT_MAX_REQUESTS
  /\ cfg.RATE_LIMIT_MAX_REQUESTS > 0

====
